---- MODULE Spec2Model ----
(***************************************************************************)
(* The asset checks of dagster-platform (platform_core/asset_checks): the  *)
(* data-quality, schema and freshness checks, each a function from a       *)
(* pandas DataFrame and its parameters to an AssetCheckResult; with them   *)
(* the sensors (observability/sensors), the schema_validated_asset wrapper *)
(* (sdk/decorators) and the custom hooks (observability/hooks).            *)
(*                                                                         *)
(* A DataFrame is [cols, data]: the ordered column names and, per column,  *)
(* its dtype and its cells.  A cell is an integer code read through the    *)
(* column's dtype:                                                         *)
(*   int64, float64   the number itself                                    *)
(*   bool             0 / 1                                                *)
(*   datetime64[ns]   a Timestamp, in minutes since 1970-01-01 00:00       *)
(*   object           a str: DateText(t) is the text of the timestamp t,   *)
(*                    a code below TextBase is text that is no date        *)
(* and NULL in any of them is None / NaN / NaT.                            *)
(* A float the code reports (hours, minutes, percentages) is kept exact as *)
(* the pair <<numerator, denominator>>.                                    *)
(***************************************************************************)
EXTENDS Integers, Sequences, FiniteSets

VARIABLES
    df,      \* the caller's DataFrame (the checks are handed this object)
    clock,   \* the last value datetime.now() returned
    call,    \* the last call: its name, its arguments, the DataFrame as passed
    result,  \* the AssetCheckResult the last call returned
    raised,  \* the exception the last call raised ("" when it returned)
    part,    \* the piece of the platform at work, with what it was built with
    runs,    \* the instance's run records, newest first
    files,   \* the entries under the monitored directory or bucket
    cursor,  \* the cursor the instance keeps for the sensor
    tick,    \* the sensor evaluation under way: the SensorResult it returned
    issued,  \* the run keys evaluations have requested: once, and again
    ended    \* how the last call of a wrapper or hook ended

vars == <<df, clock, call, result, raised,
          part, runs, files, cursor, tick, issued, ended>>

----------------------------------------------------------------------------
(* Bounds of the model. *)

MaxRows == 2
MaxCols == 2
MaxTicks == 1

----------------------------------------------------------------------------
(* Encoding of cells and optional arguments. *)

NULL == -1
None == -1
TextBase == 100000

DateText(t) == TextBase + t
IsDateText(v) == v >= TextBase

MinutesPerHour == 60
MinutesPerDay == 1440

Range(s) == {s[i] : i \in DOMAIN s}

Has(d, c) == c \in Range(d.cols)

NRows(d) == IF d.cols = <<>> THEN 0 ELSE Len(d.data[d.cols[1]].vals)

IsNull(v) == v = NULL

NonNull(vals) == SelectSeq(vals, LAMBDA v : ~IsNull(v))

\* df[name] = column: replaces the column in place, or appends a new one.
SetColumn(d, name, column) ==
    IF Has(d, name)
    THEN [d EXCEPT !.data[name] = column]
    ELSE [cols |-> Append(d.cols, name),
          data |-> [c \in Range(d.cols) \cup {name} |->
                       IF c = name THEN column ELSE d.data[c]]]

\* Series.min() / Series.max(): nulls skipped, NaN/NaT when nothing is left.
\* SeriesMin taking the first value that is not null.
SeriesMin_first(vals) ==
    IF NonNull(vals) = <<>> THEN NULL ELSE NonNull(vals)[1]

SeriesMin(vals) ==
    LET s == Range(NonNull(vals))
    IN IF s = {} THEN NULL ELSE CHOOSE m \in s : \A x \in s : m <= x

SeriesMax(vals) ==
    LET s == Range(NonNull(vals))
    IN IF s = {} THEN NULL ELSE CHOOSE m \in s : \A x \in s : m >= x

\* Series.unique(): the distinct values in order of first appearance.
RECURSIVE Unique(_)
Unique(vals) ==
    IF vals = <<>> THEN <<>>
    ELSE LET front == SubSeq(vals, 1, Len(vals) - 1)
             last == vals[Len(vals)]
         IN IF last \in Range(front) THEN Unique(front)
            ELSE Append(Unique(front), last)

\* DuplicatedCount with keep=False: every row that has a twin.
DuplicatedCount_keep_false(vals) ==
    Cardinality({i \in DOMAIN vals :
                    \E j \in DOMAIN vals : j # i /\ vals[j] = vals[i]})

\* Series.duplicated().sum(): the rows equal to an earlier row.
DuplicatedCount(vals) ==
    Cardinality({i \in DOMAIN vals : \E j \in 1..(i - 1) : vals[j] = vals[i]})

\* NullCount with .any() in place of .sum(): a column counts once.
NullCount_any(vals) ==
    IF \E i \in DOMAIN vals : IsNull(vals[i]) THEN 1 ELSE 0

NullCount(vals) == Cardinality({i \in DOMAIN vals : IsNull(vals[i])})

----------------------------------------------------------------------------
(* AssetCheckResult, and the two ways a call ends. *)

DefaultSeverity == "ERROR"

Result(passed, severity, description, metadata) ==
    [passed |-> passed, severity |-> severity,
     description |-> description, metadata |-> metadata]

NoResult == Result(FALSE, "none", <<"no result">>, [none |-> TRUE])

Returned(r, d) == [raised |-> "", result |-> r, df |-> d]

Raised(e, d) == [raised |-> e, result |-> NoResult, df |-> d]

----------------------------------------------------------------------------
(* data_quality_checks.py *)

check_no_nulls(d, columns) ==
    IF ~(Range(columns) \subseteq Range(d.cols)) THEN Raised("KeyError", d)
    ELSE
    LET null_counts == [c \in Range(columns) |-> NullCount(d.data[c].vals)]
        failed_columns == SelectSeq(columns, LAMBDA c : null_counts[c] > 0)
    IN IF failed_columns # <<>>
       THEN Returned(Result(FALSE, "ERROR",
                <<"Found null values in columns", failed_columns>>,
                [failed_columns |-> failed_columns,
                 null_counts |-> null_counts]), d)
       ELSE Returned(Result(TRUE, DefaultSeverity,
                <<"No null values found in columns", Len(columns)>>,
                [checked_columns |-> columns,
                 total_rows |-> NRows(d)]), d)

check_unique_values(d, columns) ==
    IF ~(Range(columns) \subseteq Range(d.cols)) THEN Raised("KeyError", d)
    ELSE
    LET duplicate_counts ==
            [c \in Range(columns) |-> DuplicatedCount(d.data[c].vals)]
        failed_columns == SelectSeq(columns, LAMBDA c : duplicate_counts[c] > 0)
    IN IF failed_columns # <<>>
       THEN Returned(Result(FALSE, "ERROR",
                <<"Found duplicate values in columns", failed_columns>>,
                [failed_columns |-> failed_columns,
                 duplicate_counts |-> duplicate_counts]), d)
       ELSE Returned(Result(TRUE, DefaultSeverity,
                <<"All values unique in columns", Len(columns)>>,
                [checked_columns |-> columns,
                 total_rows |-> NRows(d)]), d)

\* Python truth of an Optional[int]: None and 0 are both false.
Truthy(x) == x # None /\ x # 0

check_row_count(d, min_rows, max_rows) ==
    LET row_count == NRows(d)
    IN IF row_count < min_rows
       THEN Returned(Result(FALSE, "ERROR",
                <<"Row count below minimum", row_count, min_rows>>,
                [row_count |-> row_count, min_rows |-> min_rows,
                 max_rows |-> IF Truthy(max_rows) THEN max_rows ELSE None]), d)
       ELSE IF Truthy(max_rows) /\ row_count > max_rows
       THEN Returned(Result(FALSE, "ERROR",
                <<"Row count above maximum", row_count, max_rows>>,
                [row_count |-> row_count, min_rows |-> min_rows,
                 max_rows |-> max_rows]), d)
       ELSE Returned(Result(TRUE, DefaultSeverity,
                <<"Row count within expected range", row_count>>,
                [row_count |-> row_count, min_rows |-> min_rows,
                 max_rows |-> IF Truthy(max_rows) THEN max_rows ELSE None]), d)

\* `val not in allowed_values`: the values of a float column come out of
\* unique() as fresh numpy floats, and a NaN is neither identical nor equal to
\* a NaN of allowed_values, so a null is never allowed.
NotIn(val, allowed_values) == IsNull(val) \/ val \notin Range(allowed_values)

check_column_values(d, column, allowed_values) ==
    IF ~Has(d, column) THEN Raised("KeyError", d)
    ELSE
    LET unique_values == Unique(d.data[column].vals)
        invalid_values ==
            SelectSeq(unique_values, LAMBDA val : NotIn(val, allowed_values))
    IN IF invalid_values # <<>>
       THEN Returned(Result(FALSE, "ERROR",
                <<"Found invalid values in column", column, invalid_values>>,
                [column |-> column, invalid_values |-> invalid_values,
                 allowed_values |-> allowed_values]), d)
       ELSE Returned(Result(TRUE, DefaultSeverity,
                <<"All values in column are valid", column>>,
                [column |-> column, unique_values |-> unique_values,
                 allowed_values |-> allowed_values]), d)

\* pd.to_datetime(series): [ok, err, col].  datetime64 stays; str is parsed
\* (text that is no date raises); a number n is the instant n nanoseconds
\* from the epoch, which is the epoch to the minute for the numbers modelled;
\* NaN and None become NaT; bool is refused.
to_datetime(col) ==
    CASE col.dtype = "datetime64[ns]" ->
            [ok |-> TRUE, err |-> "", col |-> col]
      [] col.dtype = "object" ->
            IF \E i \in DOMAIN col.vals :
                   ~IsNull(col.vals[i]) /\ ~IsDateText(col.vals[i])
            THEN [ok |-> FALSE, err |-> "ValueError", col |-> col]
            ELSE [ok |-> TRUE, err |-> "",
                  col |-> [dtype |-> "datetime64[ns]",
                           vals |-> [i \in DOMAIN col.vals |->
                                       IF IsNull(col.vals[i]) THEN NULL
                                       ELSE col.vals[i] - TextBase]]]
      [] col.dtype \in {"int64", "int32", "float64"} ->
            [ok |-> TRUE, err |-> "",
             col |-> [dtype |-> "datetime64[ns]",
                      vals |-> [i \in DOMAIN col.vals |->
                                  IF IsNull(col.vals[i]) THEN NULL ELSE 0]]]
      [] OTHER -> [ok |-> FALSE, err |-> "TypeError", col |-> col]

\* series < number, series > number: a datetime column refuses the comparison,
\* an object column refuses it at its first str cell.
NumericComparable(col) ==
    /\ col.dtype # "datetime64[ns]"
    /\ col.dtype = "object" => \A i \in DOMAIN col.vals : IsNull(col.vals[i])

\* CountBelow with <= in place of <.
CountBelow_or_equal(vals, bound) ==
    Cardinality({i \in DOMAIN vals : ~IsNull(vals[i]) /\ vals[i] <= bound})

CountBelow(vals, bound) ==
    Cardinality({i \in DOMAIN vals : ~IsNull(vals[i]) /\ vals[i] < bound})

CountAbove(vals, bound) ==
    Cardinality({i \in DOMAIN vals : ~IsNull(vals[i]) /\ vals[i] > bound})

check_numeric_range(d, column, min_value, max_value) ==
    IF ~Has(d, column) THEN Raised("KeyError", d)
    ELSE
    LET col == d.data[column]
        below_min == CountBelow(col.vals, min_value)
        above_max == CountAbove(col.vals, max_value)
    IN IF (min_value # None \/ max_value # None) /\ ~NumericComparable(col)
       THEN Raised("TypeError", d)
       ELSE IF min_value # None /\ below_min > 0
       THEN Returned(Result(FALSE, "ERROR",
                <<"values in column below minimum", below_min, column, min_value>>,
                [column |-> column, below_min_count |-> below_min,
                 min_value |-> min_value,
                 actual_min |-> SeriesMin(col.vals)]), d)
       ELSE IF max_value # None /\ above_max > 0
       THEN Returned(Result(FALSE, "ERROR",
                <<"values in column above maximum", above_max, column, max_value>>,
                [column |-> column, above_max_count |-> above_max,
                 max_value |-> max_value,
                 actual_max |-> SeriesMax(col.vals)]), d)
       ELSE Returned(Result(TRUE, DefaultSeverity,
                <<"All values in column within expected range", column>>,
                [column |-> column, min_value |-> min_value,
                 max_value |-> max_value,
                 actual_min |-> SeriesMin(col.vals),
                 actual_max |-> SeriesMax(col.vals)]), d)

\* pd.to_datetime(text) of a date argument (None when the argument is absent).
ParseDate(text) == IF text = None THEN None ELSE text - TextBase

check_date_range(d, column, min_date, max_date) ==
    IF ~Has(d, column) THEN Raised("KeyError", d)
    ELSE
    LET conv == to_datetime(d.data[column])
        d1 == SetColumn(d, column, conv.col)
        vals == conv.col.vals
        before_min == CountBelow(vals, ParseDate(min_date))
        after_max == CountAbove(vals, ParseDate(max_date))
    IN IF ~conv.ok THEN Raised(conv.err, d)
       ELSE IF min_date # None /\ before_min > 0
       THEN Returned(Result(FALSE, "ERROR",
                <<"dates in column before minimum", before_min, column, min_date>>,
                [column |-> column, before_min_count |-> before_min,
                 min_date |-> min_date,
                 actual_min |-> SeriesMin(vals)]), d1)
       ELSE IF max_date # None /\ after_max > 0
       THEN Returned(Result(FALSE, "ERROR",
                <<"dates in column after maximum", after_max, column, max_date>>,
                [column |-> column, after_max_count |-> after_max,
                 max_date |-> max_date,
                 actual_max |-> SeriesMax(vals)]), d1)
       ELSE Returned(Result(TRUE, DefaultSeverity,
                <<"All dates in column within expected range", column>>,
                [column |-> column, min_date |-> min_date,
                 max_date |-> max_date,
                 actual_min |-> SeriesMin(vals),
                 actual_max |-> SeriesMax(vals)]), d1)

----------------------------------------------------------------------------
(* schema_checks.py *)

\* [col for col in xs if col not in ys] and [col for col in xs if col in ys]
Without(xs, ys) == SelectSeq(xs, LAMBDA col : col \notin Range(ys))

\* Within keeping every name.
Within_unfiltered(xs, ys) == xs

Within(xs, ys) == SelectSeq(xs, LAMBDA col : col \in Range(ys))

ActualTypes(d) == [c \in Range(d.cols) |-> d.data[c].dtype]

check_required_columns(d, required_columns) ==
    LET missing_columns == Without(required_columns, d.cols)
    IN IF missing_columns # <<>>
       THEN Returned(Result(FALSE, "ERROR",
                <<"Missing required columns", missing_columns>>,
                [missing_columns |-> missing_columns,
                 required_columns |-> required_columns,
                 actual_columns |-> d.cols]), d)
       ELSE Returned(Result(TRUE, DefaultSeverity,
                <<"All required columns present", Len(required_columns)>>,
                [required_columns |-> required_columns,
                 actual_columns |-> d.cols]), d)

\* str(dtype).startswith(prefix), for the dtypes and prefixes of the check.
StartsWith(actual_type, prefix) ==
    CASE prefix = "object" -> actual_type = "object"
      [] prefix = "int" -> actual_type \in {"int64", "int32"}
      [] prefix = "float" -> actual_type = "float64"
      [] prefix = "datetime" -> actual_type = "datetime64[ns]"
      [] prefix = "bool" -> actual_type = "bool"
      [] OTHER -> FALSE

\* One turn of the loop over expected_types.items(): does the pair add a
\* mismatch?  A column the frame lacks is skipped, a kind the chain of
\* branches does not name matches anything.
\* TypeMismatch with a mismatch for every kind the branches do not name.
TypeMismatch_unknown_kind(d, column, expected_type) ==
    /\ Has(d, column)
    /\ LET actual_type == d.data[column].dtype
       IN \/ expected_type = "string" /\ ~StartsWith(actual_type, "object")
          \/ expected_type = "integer" /\ ~StartsWith(actual_type, "int")
          \/ expected_type = "float" /\ ~StartsWith(actual_type, "float")
          \/ expected_type = "datetime" /\ ~StartsWith(actual_type, "datetime")
          \/ expected_type = "boolean" /\ ~StartsWith(actual_type, "bool")
          \/ expected_type \notin {"string", "integer", "float", "datetime",
                                   "boolean"}

TypeMismatch(d, column, expected_type) ==
    /\ Has(d, column)
    /\ LET actual_type == d.data[column].dtype
       IN \/ expected_type = "string" /\ ~StartsWith(actual_type, "object")
          \/ expected_type = "integer" /\ ~StartsWith(actual_type, "int")
          \/ expected_type = "float" /\ ~StartsWith(actual_type, "float")
          \/ expected_type = "datetime" /\ ~StartsWith(actual_type, "datetime")
          \/ expected_type = "boolean" /\ ~StartsWith(actual_type, "bool")

\* A str given where the dict is expected (the schema's values are typed
\* Union[str, Dict]): kept apart from a dict's <<column, kind>> items as the
\* one-element item <<text>>.
Str(text) == <<<<text>>>>

IsStr(value) == value # <<>> /\ Len(value[1]) = 1

\* expected_types is a dict: here the sequence of its <<column, kind>> items.
\* A str has no .items().
check_column_types(d, expected_types) ==
    IF IsStr(expected_types) THEN Raised("AttributeError", d)
    ELSE
    LET bad == SelectSeq(expected_types,
                         LAMBDA item : TypeMismatch(d, item[1], item[2]))
        type_mismatches ==
            [i \in DOMAIN bad |->
                <<bad[i][1], bad[i][2], d.data[bad[i][1]].dtype>>]
    IN IF type_mismatches # <<>>
       THEN Returned(Result(FALSE, "ERROR",
                <<"Column type mismatches", type_mismatches>>,
                [type_mismatches |-> type_mismatches,
                 expected_types |-> expected_types,
                 actual_types |-> ActualTypes(d)]), d)
       ELSE Returned(Result(TRUE, DefaultSeverity,
                <<"All column types match expectations", Len(expected_types)>>,
                [expected_types |-> expected_types,
                 actual_types |-> ActualTypes(d)]), d)

\* check_no_extra_columns with the failing result's severity left out of WARN
\* and ERROR.
check_no_extra_columns_info(d, allowed_columns) ==
    LET extra_columns == Without(d.cols, allowed_columns)
    IN IF extra_columns # <<>>
       THEN Returned(Result(FALSE, "INFO",
                <<"Found unexpected columns", extra_columns>>,
                [extra_columns |-> extra_columns,
                 allowed_columns |-> allowed_columns,
                 actual_columns |-> d.cols]), d)
       ELSE Returned(Result(TRUE, DefaultSeverity,
                <<"No unexpected columns found">>,
                [allowed_columns |-> allowed_columns,
                 actual_columns |-> d.cols]), d)

check_no_extra_columns(d, allowed_columns) ==
    LET extra_columns == Without(d.cols, allowed_columns)
    IN IF extra_columns # <<>>
       THEN Returned(Result(FALSE, "WARN",
                <<"Found unexpected columns", extra_columns>>,
                [extra_columns |-> extra_columns,
                 allowed_columns |-> allowed_columns,
                 actual_columns |-> d.cols]), d)
       ELSE Returned(Result(TRUE, DefaultSeverity,
                <<"No unexpected columns found">>,
                [allowed_columns |-> allowed_columns,
                 actual_columns |-> d.cols]), d)

\* check_column_order comparing the two lists as sets.
check_column_order_as_sets(d, expected_order) ==
    LET common_columns == Within(expected_order, d.cols)
        actual_order == Within(d.cols, expected_order)
    IN IF Range(common_columns) # Range(actual_order)
       THEN Returned(Result(FALSE, "WARN",
                <<"Column order doesn't match expected order">>,
                [expected_order |-> expected_order,
                 actual_order |-> actual_order,
                 common_columns |-> common_columns]), d)
       ELSE Returned(Result(TRUE, DefaultSeverity,
                <<"Column order matches expected order", Len(common_columns)>>,
                [expected_order |-> expected_order,
                 actual_order |-> actual_order]), d)

check_column_order(d, expected_order) ==
    LET common_columns == Within(expected_order, d.cols)
        actual_order == Within(d.cols, expected_order)
    IN IF common_columns # actual_order
       THEN Returned(Result(FALSE, "WARN",
                <<"Column order doesn't match expected order">>,
                [expected_order |-> expected_order,
                 actual_order |-> actual_order,
                 common_columns |-> common_columns]), d)
       ELSE Returned(Result(TRUE, DefaultSeverity,
                <<"Column order matches expected order", Len(common_columns)>>,
                [expected_order |-> expected_order,
                 actual_order |-> actual_order]), d)

\* schema is a dict: here the sequence of its <<key, value>> items.
SchemaHas(schema, key) == \E i \in DOMAIN schema : schema[i][1] = key

SchemaGet(schema, key) ==
    schema[CHOOSE i \in DOMAIN schema : schema[i][1] = key][2]

\* ActualSchema with the shape as (columns, rows).
ActualSchema_transposed(d) ==
    [columns |-> d.cols, types |-> ActualTypes(d),
     shape |-> <<Len(d.cols), NRows(d)>>]

ActualSchema(d) ==
    [columns |-> d.cols, types |-> ActualTypes(d),
     shape |-> <<NRows(d), Len(d.cols)>>]

\* IssueOf collecting the ERROR results only.
IssueOf_errors_only(present, r) ==
    IF present /\ ~r.passed /\ r.severity = "ERROR"
    THEN <<r.description>> ELSE <<>>

\* issues.append(result.description) when the sub-check ran and failed.
IssueOf(present, r) ==
    IF present /\ ~r.passed THEN <<r.description>> ELSE <<>>

\* The sub-checks in the order validate_schema calls them, the call it makes
\* for a key, and the calls that raise.
SubCheckKeys ==
    <<"required_columns", "column_types", "allowed_columns", "column_order">>

SubCheckCall(d, schema, key) ==
    CASE key = "required_columns" ->
            check_required_columns(d, SchemaGet(schema, key))
      [] key = "column_types" -> check_column_types(d, SchemaGet(schema, key))
      [] key = "allowed_columns" ->
            check_no_extra_columns(d, SchemaGet(schema, key))
      [] key = "column_order" -> check_column_order(d, SchemaGet(schema, key))

Faults(d, schema) ==
    SelectSeq(SubCheckKeys,
              LAMBDA key : /\ SchemaHas(schema, key)
                           /\ SubCheckCall(d, schema, key).raised # "")

\* No call of a sub-check is wrapped: what one raises leaves validate_schema.
validate_schema(d, schema) ==
    IF Faults(d, schema) # <<>>
    THEN Raised(SubCheckCall(d, schema, Faults(d, schema)[1]).raised, d)
    ELSE
    LET issues ==
            IssueOf(SchemaHas(schema, "required_columns"),
                    check_required_columns(d,
                        SchemaGet(schema, "required_columns")).result)
            \o IssueOf(SchemaHas(schema, "column_types"),
                    check_column_types(d,
                        SchemaGet(schema, "column_types")).result)
            \o IssueOf(SchemaHas(schema, "allowed_columns"),
                    check_no_extra_columns(d,
                        SchemaGet(schema, "allowed_columns")).result)
            \o IssueOf(SchemaHas(schema, "column_order"),
                    check_column_order(d,
                        SchemaGet(schema, "column_order")).result)
    IN IF issues # <<>>
       THEN Returned(Result(FALSE, "ERROR",
                <<"Schema validation failed", issues>>,
                [schema_issues |-> issues,
                 schema_definition |-> schema,
                 actual_schema |-> ActualSchema(d)]), d)
       ELSE Returned(Result(TRUE, DefaultSeverity,
                <<"Schema validation passed">>,
                [schema_definition |-> schema,
                 actual_schema |-> ActualSchema(d)]), d)

----------------------------------------------------------------------------
(* freshness_checks.py *)

NaN == <<0, 0>>

\* timedelta.total_seconds() / 3600 of a span of minutes, and the same in
\* minutes.
Hours(minutes) == <<minutes, MinutesPerHour>>

Minutes(minutes) == <<minutes, 1>>

\* f"{x:.1f}": x rounded to tenths.
Fmt1(x) ==
    IF x[2] = 0 THEN NaN ELSE <<(20 * x[1] + x[2]) \div (2 * x[2]), 10>>

\* FloatGt with >= in place of >.
FloatGt_or_equal(x, y) == x[2] # 0 /\ x[1] >= y * x[2]

\* x > y for a float x and an integer y; false for NaN.
FloatGt(x, y) == x[2] # 0 /\ x[1] > y * x[2]

RECURSIVE Insert(_, _)
Insert(sorted, v) ==
    IF sorted = <<>> THEN <<v>>
    ELSE IF ~IsNull(v) /\ (IsNull(sorted[Len(sorted)]) \/ v < sorted[Len(sorted)])
    THEN Append(Insert(SubSeq(sorted, 1, Len(sorted) - 1), v),
                sorted[Len(sorted)])
    ELSE Append(sorted, v)

\* sort_values(timestamp_column), read at that column: ascending, NaT last.
RECURSIVE SortValues(_)
SortValues(vals) ==
    IF vals = <<>> THEN <<>>
    ELSE Insert(SortValues(SubSeq(vals, 1, Len(vals) - 1)), vals[Len(vals)])

\* Series.diff(): NaT for the first row and next to a NaT.
Diff(vals) ==
    [i \in DOMAIN vals |->
        IF i = 1 \/ IsNull(vals[i]) \/ IsNull(vals[i - 1]) THEN NULL
        ELSE vals[i] - vals[i - 1]]

\* TimeDiffs of the column as it stands, not sorted.
TimeDiffs_unsorted(vals) == NonNull(Diff(vals))

\* .diff() ... .dropna() of the sorted column, in minutes.
TimeDiffs(vals) == NonNull(Diff(SortValues(vals)))

RECURSIVE SeqSum(_)
SeqSum(s) == IF s = <<>> THEN 0 ELSE s[1] + SeqSum(Tail(s))

\* MissingTimestampColumn with severity WARN.
MissingTimestampColumn_warn(d, timestamp_column) ==
    Result(FALSE, "WARN",
           <<"Timestamp column not found in DataFrame", timestamp_column>>,
           [timestamp_column |-> timestamp_column,
            available_columns |-> d.cols])

\* MissingTimestampColumn reported as a pass.
MissingTimestampColumn_passing(d, timestamp_column) ==
    Result(TRUE, DefaultSeverity,
           <<"Timestamp column not found in DataFrame", timestamp_column>>,
           [timestamp_column |-> timestamp_column,
            available_columns |-> d.cols])

MissingTimestampColumn(d, timestamp_column) ==
    Result(FALSE, "ERROR",
           <<"Timestamp column not found in DataFrame", timestamp_column>>,
           [timestamp_column |-> timestamp_column,
            available_columns |-> d.cols])

\* now is what datetime.now() returns in this call.
check_data_freshness(d, timestamp_column, max_age_hours, now) ==
    IF ~Has(d, timestamp_column)
    THEN Returned(MissingTimestampColumn(d, timestamp_column), d)
    ELSE
    LET conv == to_datetime(d.data[timestamp_column])
        d1 == SetColumn(d, timestamp_column, conv.col)
        most_recent == SeriesMax(conv.col.vals)
        current_time == now
        age_hours == IF IsNull(most_recent) THEN NaN
                     ELSE Hours(current_time - most_recent)
        metadata == [most_recent_timestamp |-> most_recent,
                     current_time |-> current_time,
                     age_hours |-> age_hours,
                     max_age_hours |-> max_age_hours,
                     timestamp_column |-> timestamp_column]
    IN IF ~conv.ok THEN Raised(conv.err, d)
       ELSE IF FloatGt(age_hours, max_age_hours)
       THEN Returned(Result(FALSE, "ERROR",
                <<"Data exceeds maximum age", Fmt1(age_hours), max_age_hours>>,
                metadata), d1)
       ELSE Returned(Result(TRUE, DefaultSeverity,
                <<"Data is fresh", Fmt1(age_hours), max_age_hours>>,
                metadata), d1)

check_update_frequency(d, timestamp_column, expected_frequency_hours) ==
    IF ~Has(d, timestamp_column)
    THEN Returned(MissingTimestampColumn(d, timestamp_column), d)
    ELSE
    LET conv == to_datetime(d.data[timestamp_column])
        d1 == SetColumn(d, timestamp_column, conv.col)
        time_diffs == TimeDiffs(conv.col.vals)
        avg_frequency ==
            <<SeqSum(time_diffs), MinutesPerHour * Len(time_diffs)>>
        max_gap == Hours(SeriesMax(time_diffs))
        threshold == expected_frequency_hours * 2
        metadata == [max_gap_hours |-> max_gap,
                     avg_frequency_hours |-> avg_frequency,
                     expected_frequency_hours |-> expected_frequency_hours,
                     timestamp_column |-> timestamp_column,
                     record_count |-> NRows(d1)]
    IN IF ~conv.ok THEN Raised(conv.err, d)
       ELSE IF Len(time_diffs) = 0
       THEN Returned(Result(FALSE, "WARN",
                <<"Insufficient data to check update frequency">>,
                [timestamp_column |-> timestamp_column,
                 record_count |-> NRows(d1)]), d1)
       ELSE IF FloatGt(max_gap, threshold)
       THEN Returned(Result(FALSE, "WARN",
                <<"Large gap in updates detected", Fmt1(max_gap),
                  expected_frequency_hours>>, metadata), d1)
       ELSE Returned(Result(TRUE, DefaultSeverity,
                <<"Update frequency is normal", Fmt1(avg_frequency),
                  Fmt1(max_gap)>>, metadata), d1)

\* Timestamp.hour and Timestamp.weekday() (Monday 0); the epoch was a Thursday.
HourOf(t) == (t \div MinutesPerHour) % 24

WeekdayOf(t) == (3 + (t \div MinutesPerDay)) % 7

\* series.dt.hour, series.dt.weekday: int32, or float64 with NaN beside a NaT.
DtField(col, field) ==
    [dtype |-> IF \E i \in DOMAIN col.vals : IsNull(col.vals[i])
               THEN "float64" ELSE "int32",
     vals |-> [i \in DOMAIN col.vals |->
                 IF IsNull(col.vals[i]) THEN NULL
                 ELSE IF field = "hour" THEN HourOf(col.vals[i])
                 ELSE WeekdayOf(col.vals[i])]]

\* (count / total_count) * 100 if total_count > 0 else 0
Percentage(count, total_count) ==
    IF total_count > 0 THEN <<count * 100, total_count>> ELSE <<0, 1>>

check_business_hours_data(d, timestamp_column, business_start, business_end) ==
    IF ~Has(d, timestamp_column)
    THEN Returned(MissingTimestampColumn(d, timestamp_column), d)
    ELSE
    LET conv == to_datetime(d.data[timestamp_column])
        d1 == SetColumn(d, timestamp_column, conv.col)
        d2 == SetColumn(d1, "hour", DtField(d1.data[timestamp_column], "hour"))
        hour == d2.data["hour"].vals
        business_hours_count ==
            Cardinality({i \in DOMAIN hour :
                ~IsNull(hour[i]) /\ hour[i] >= business_start
                                 /\ hour[i] < business_end})
        total_count == NRows(d2)
        d3 == SetColumn(d2, "weekday",
                        DtField(d2.data[timestamp_column], "weekday"))
        weekday == d3.data["weekday"].vals
        weekend_count ==
            Cardinality({i \in DOMAIN weekday :
                ~IsNull(weekday[i]) /\ weekday[i] >= 5})
        business_hours_percentage ==
            Percentage(business_hours_count, total_count)
        weekend_percentage == Percentage(weekend_count, total_count)
    IN IF ~conv.ok THEN Raised(conv.err, d)
       ELSE IF d2.data[timestamp_column].dtype # "datetime64[ns]"
       THEN Raised("AttributeError", d2)
       ELSE Returned(Result(TRUE, DefaultSeverity,
                <<"Data distribution", Fmt1(business_hours_percentage),
                  Fmt1(weekend_percentage)>>,
                [business_hours_count |-> business_hours_count,
                 business_hours_percentage |-> business_hours_percentage,
                 weekend_count |-> weekend_count,
                 weekend_percentage |-> weekend_percentage,
                 total_count |-> total_count,
                 business_start |-> business_start,
                 business_end |-> business_end,
                 timestamp_column |-> timestamp_column]), d3)

\* Tolerance without the factor 1.5.
Tolerance_exact(expected_interval_minutes) == <<expected_interval_minutes, 1>>

\* tolerance = expected_interval_minutes * 1.5
Tolerance(expected_interval_minutes) == <<expected_interval_minutes * 3, 2>>

check_data_continuity(d, timestamp_column, expected_interval_minutes) ==
    IF ~Has(d, timestamp_column)
    THEN Returned(MissingTimestampColumn(d, timestamp_column), d)
    ELSE
    LET conv == to_datetime(d.data[timestamp_column])
        d1 == SetColumn(d, timestamp_column, conv.col)
        time_diffs == TimeDiffs(conv.col.vals)
        tolerance == Tolerance(expected_interval_minutes)
        gaps == SelectSeq(time_diffs,
                    LAMBDA x : x * tolerance[2] > tolerance[1])
    IN IF ~conv.ok THEN Raised(conv.err, d)
       ELSE IF Len(time_diffs) = 0
       THEN Returned(Result(FALSE, "WARN",
                <<"Insufficient data to check continuity">>,
                [timestamp_column |-> timestamp_column,
                 record_count |-> NRows(d1)]), d1)
       ELSE IF Len(gaps) > 0
       THEN Returned(Result(FALSE, "WARN",
                <<"Found data gaps longer than tolerance", Len(gaps),
                  Fmt1(tolerance)>>,
                [gap_count |-> Len(gaps),
                 largest_gap_minutes |-> Minutes(SeriesMax(gaps)),
                 avg_gap_minutes |-> <<SeqSum(gaps), Len(gaps)>>,
                 expected_interval_minutes |-> expected_interval_minutes,
                 tolerance_minutes |-> tolerance,
                 timestamp_column |-> timestamp_column]), d1)
       ELSE Returned(Result(TRUE, DefaultSeverity,
                <<"Data continuity is good", Fmt1(tolerance)>>,
                [expected_interval_minutes |-> expected_interval_minutes,
                 tolerance_minutes |-> tolerance,
                 timestamp_column |-> timestamp_column,
                 record_count |-> NRows(d1)]), d1)

----------------------------------------------------------------------------
(* The DataFrames and the arguments the checks are called with. *)

SeqsUpTo(S, n) == UNION {[1..k -> S] : k \in 0..n}

Names == {"id", "name", "ts"}

\* A column of numbers (int64, or float64 once it holds a NaN), of text, and
\* of timestamps either parsed or still text.
NumberColumn(vals) ==
    [dtype |-> IF \E i \in DOMAIN vals : IsNull(vals[i])
               THEN "float64" ELSE "int64",
     vals |-> vals]

TextColumn(vals) == [dtype |-> "object", vals |-> vals]

TimeColumn(vals) == [dtype |-> "datetime64[ns]", vals |-> vals]

DateTextColumn(vals) ==
    [dtype |-> "object",
     vals |-> [i \in DOMAIN vals |->
                 IF IsNull(vals[i]) THEN NULL ELSE DateText(vals[i])]]

Frame(cols, data) == [cols |-> cols, data |-> data]

Frame2(c1, col1, c2, col2) ==
    Frame(<<c1, c2>>, [c \in {c1, c2} |-> IF c = c1 THEN col1 ELSE col2])

\* Thursday 10:00, Saturday 20:00 and Sunday 09:00 of the epoch's week.
Thursday10 == 10 * MinutesPerHour
Saturday20 == 2 * MinutesPerDay + 20 * MinutesPerHour
Sunday09 == 3 * MinutesPerDay + 9 * MinutesPerHour

Timestamps == {Thursday10, Saturday20, Sunday09}

NumberValues == {-2, 1, NULL}

TextValues == {1, NULL}

\* Three rows holding a value three times, or two values of which one twice.
Repeats3 == {<<1, 1, 1>>, <<1, -2, 1>>, <<NULL, NULL, NULL>>}

\* Frames for the data-quality checks: a number column and a text column.
QualityData ==
    {Frame2("id", NumberColumn(a), "name", TextColumn(b)) :
        <<a, b>> \in UNION {[1..k -> NumberValues] \X [1..k -> TextValues] :
                            k \in 0..MaxRows}}
    \cup {Frame2("id", NumberColumn(a), "name", TextColumn(<<1, 1, 1>>)) :
             a \in Repeats3}

\* Three rows with no timestamp twice: two deltas, or one beside a NaT.
Series3 ==
    {b \in [1..3 -> Timestamps \cup {NULL}] :
        \A i, j \in 1..3 : b[i] = b[j] => i = j}

\* Frames for the freshness checks: a text column and a timestamp column,
\* parsed or not.
FreshData ==
    UNION {{Frame2("name", TextColumn([i \in DOMAIN b |-> 1]), "ts", TimeColumn(b)),
            Frame2("name", TextColumn([i \in DOMAIN b |-> 1]), "ts", DateTextColumn(b))} :
           b \in SeqsUpTo(Timestamps \cup {NULL}, MaxRows) \cup Series3}

\* Frames for the schema checks: one row, every layout of up to MaxCols of
\* the columns, every dtype a column may have.
ColumnChoices(c) ==
    CASE c = "id" -> {NumberColumn(<<1>>), NumberColumn(<<NULL>>)}
      [] c = "name" -> {TextColumn(<<1>>), [dtype |-> "bool", vals |-> <<1>>]}
      [] c = "ts" -> {TimeColumn(<<Thursday10>>), DateTextColumn(<<Thursday10>>)}

Layouts ==
    {l \in SeqsUpTo(Names, MaxCols) : Cardinality(Range(l)) = Len(l)}

SchemaData ==
    UNION {{Frame(l, data) :
               data \in {f \in [Range(l) -> UNION {ColumnChoices(c) : c \in Names}] :
                            \A c \in Range(l) : f[c] \in ColumnChoices(c)}} :
           l \in Layouts}

ColumnLists == SeqsUpTo(Names, MaxCols)

RowBounds == 0..MaxRows

OptionalRowBounds == RowBounds \cup {None}

AllowedValueLists == {<<>>, <<1>>, <<-2>>, <<1, -2>>, <<1, NULL>>}

OptionalNumbers == {None, 0, 1}

OptionalDates == {None, DateText(Saturday20), DateText(Sunday09)}

Kinds == {"string", "integer", "float", "datetime", "boolean", "category"}

ExpectedTypes ==
    {<<>>} \cup {<<<<c, k>>>> : c \in Names, k \in Kinds}
           \cup {<<<<"id", k1>>, <<"ts", k2>>>> : k1 \in Kinds, k2 \in {"datetime", "string"}}

\* The schema dicts: each key absent or with one of two values.
Entry(key, values) == {<<>>} \cup {<<<<key, v>>>> : v \in values}

Schemas ==
    {r \o t \o a \o o :
        r \in Entry("required_columns", {<<"id">>, <<"id", "ts">>}),
        t \in Entry("column_types",
                    {<<<<"id", "integer">>>>,
                     <<<<"id", "integer">>, <<"ts", "datetime">>>>}),
        a \in Entry("allowed_columns", {<<"id">>, <<"id", "ts">>}),
        o \in Entry("column_order", {<<"id", "ts">>, <<"ts", "id">>})}

\* Schema dicts whose keys are declared in another order than the one
\* validate_schema looks them up in.
ReorderedSchemas ==
    {o \o a :
        o \in Entry("column_order", {<<"id", "ts">>, <<"ts", "id">>}) \ {<<>>},
        a \in Entry("allowed_columns", {<<"id">>, <<"id", "ts">>}) \ {<<>>}}

\* Schema dicts with a str for column_types, beside sibling keys.
MistypedSchemas ==
    {r \o <<<<"column_types", Str("integer")>>>> \o o :
        r \in Entry("required_columns", {<<"id", "ts">>}),
        o \in Entry("column_order", {<<"ts", "id">>})}

SchemaArguments == Schemas \cup ReorderedSchemas \cup MistypedSchemas

TimestampColumns == {"ts", "name", "hour"}

MaxAgeHours == {12, 24}

\* 29 hours: twice that is the 58 hours from Thursday10 to Saturday20.
FrequencyHours == {1, 29}

\* 520 minutes: one and a half times that is the 780 minutes from Saturday20
\* to Sunday09.
IntervalMinutes == {60, 520}

BusinessHours == {<<9, 17>>, <<0, 12>>}

\* Sunday 20:00, and what datetime.now() may return from then on.
Clock0 == Saturday20 + MinutesPerDay

ClockStep == MinutesPerHour \div 2

ClockReadings(c) ==
    {c + k * ClockStep : k \in 0..MaxTicks} \cap (Clock0..(Clock0 + MaxTicks * ClockStep))

----------------------------------------------------------------------------
(* schedule_sensor.py                                                      *)
(* A run record is [run_id, job_name, status, tags, run_config, end_time,  *)
(* failed_at]: end_time is what the record holds (None when it holds no    *)
(* end time),                                                              *)
(* failed_at the instant the run did fail.  A tag value and a cursor are   *)
(* text; a run key f"retry_{a}_{b}" is the tuple <<"retry", a, b>>.         *)

\* str(n) of a number, and int(text) / float(text) of such a text.
str(n) == TextBase + n

number(text) == text - TextBase

RunRequest(run_key, tags, run_config) ==
    [run_key |-> run_key, tags |-> tags, run_config |-> run_config]

SensorResult(run_requests, skip_reason, new_cursor) ==
    [run_requests |-> run_requests, skip_reason |-> skip_reason,
     cursor |-> new_cursor]

Skip(skip_reason) == SensorResult(<<>>, skip_reason, None)

\* get_run_records(limit=10, order_by="created_at", ascending=False)
RecentRuns(history) ==
    SubSeq(history, 1, IF Len(history) < 10 THEN Len(history) ELSE 10)

\* RetriesExhausted with > in place of >=.
RetriesExhausted_past(retry_count, max_retries) == retry_count > max_retries

RetriesExhausted(retry_count, max_retries) == retry_count >= max_retries

\* The delay is looked at only when the record holds an end time.
failure_recovery_sensor(history, job_name, max_retries, retry_delay_minutes, now) ==
    LET job_runs == SelectSeq(RecentRuns(history),
                              LAMBDA run : run.job_name = job_name)
        latest_run == job_runs[1]
        retry_count ==
            number(IF "retry_count" \in DOMAIN latest_run.tags
                   THEN latest_run.tags.retry_count ELSE str(0))
        failure_time == latest_run.end_time
    IN IF job_runs = <<>> THEN Skip(<<"No recent runs found">>)
       ELSE IF latest_run.status # "FAILURE"
       THEN Skip(<<"Latest run did not fail">>)
       ELSE IF RetriesExhausted(retry_count, max_retries)
       THEN Skip(<<"Maximum retries reached", max_retries>>)
       ELSE IF failure_time # None /\ now - failure_time < retry_delay_minutes
       THEN Skip(<<"Waiting before retry", retry_delay_minutes>>)
       ELSE SensorResult(
                <<RunRequest(<<"retry", latest_run.run_id, retry_count + 1>>,
                             [retry_count |-> str(retry_count + 1),
                              original_run_id |-> latest_run.run_id,
                              retry_reason |-> "automatic_failure_recovery"],
                             latest_run.run_config)>>,
                <<>>, None)

\* The cursor is the run id last requested; "" (here 0) before the first.
dependency_sensor(history, context_cursor, upstream_job_name) ==
    LET last_processed_run_id ==
            IF context_cursor # None THEN context_cursor ELSE 0
        upstream_runs ==
            SelectSeq(RecentRuns(history),
                      LAMBDA run : run.job_name = upstream_job_name)
        new_successful_runs ==
            SelectSeq(upstream_runs,
                      LAMBDA run : /\ run.status = "SUCCESS"
                                   /\ run.run_id # last_processed_run_id)
        latest_successful_run == new_successful_runs[1]
    IN IF upstream_runs = <<>> THEN Skip(<<"No recent upstream runs found">>)
       ELSE IF new_successful_runs # <<>>
       THEN SensorResult(
                <<RunRequest(<<"triggered_by", latest_successful_run.run_id>>,
                             [triggered_by |-> latest_successful_run.run_id,
                              upstream_job |-> upstream_job_name],
                             <<>>)>>,
                <<>>, latest_successful_run.run_id)
       ELSE Skip(<<"No new successful upstream runs">>)

----------------------------------------------------------------------------
(* file_sensor.py                                                          *)
(* An entry under the directory (or an object of the bucket) is            *)
(* [path, is_file, mtime]; a path is [dir, stem, suffix], the directory    *)
(* itself the path with nothing in it; st_mtime counts in half seconds.    *)

Path(dir, stem, suffix) == [dir |-> dir, stem |-> stem, suffix |-> suffix]

Root == Path(<<>>, "", "")

\* A directory listing has no order of its own: one is picked.
RECURSIVE Listed(_)
Listed(S) ==
    IF S = {} THEN <<>>
    ELSE LET x == CHOOSE x \in S : TRUE IN <<x>> \o Listed(S \ {x})

\* list_objects may raise: the sensor then skips.  Every object listed
\* whose key ends with one of the extensions (when any are given) is
\* requested, and the cursor handed back is the one the evaluation began
\* with: DateText(0), "1970-01-01T00:00:00Z", when it began with none.
s3_file_sensor(objects_, context_cursor, file_extensions, fails) ==
    LET last_processed_time ==
            IF context_cursor # None THEN context_cursor ELSE DateText(0)
        objects ==
            Listed({o.path : o \in {e \in objects_ :
                       file_extensions # <<>> =>
                           \E i \in DOMAIN file_extensions :
                              e.path.suffix = file_extensions[i]}})
    IN IF fails THEN Skip(<<"S3 error">>)
       ELSE IF objects # <<>>
       THEN SensorResult(
                [i \in DOMAIN objects |->
                    RunRequest(<<"s3_file", objects[i]>>, <<>>,
                               [file_key |-> objects[i]])],
                <<>>, last_processed_time)
       ELSE Skip(<<"No new files found">>)

\* IsNewFile with >= in place of >.
IsNewFile_or_equal(mod_time, last_processed_time) ==
    mod_time >= last_processed_time

IsNewFile(mod_time, last_processed_time) == mod_time > last_processed_time

\* Path(file_path).name is the stem with the suffix, int(current_time) the
\* whole seconds of the half seconds counted.
local_file_sensor(entries, context_cursor, file_extensions) ==
    LET last_processed_time ==
            IF context_cursor # None THEN number(context_cursor) ELSE 0
        matching == {e \in entries :
                        /\ e.path # Root
                        /\ e.is_file
                        /\ file_extensions # <<>> =>
                              \E i \in DOMAIN file_extensions :
                                 e.path.suffix = file_extensions[i]}
        times == {0} \cup {e.mtime : e \in matching}
        current_time == CHOOSE t \in times : \A u \in times : t >= u
        new_files ==
            Listed({e.path : e \in {m \in matching :
                                IsNewFile(m.mtime, last_processed_time)}})
    IN IF ~\E e \in entries : e.path = Root
       THEN Skip(<<"Directory does not exist">>)
       ELSE IF new_files # <<>>
       THEN SensorResult(
                [i \in DOMAIN new_files |->
                    RunRequest(<<"local_file",
                                 <<new_files[i].stem, new_files[i].suffix>>,
                                 current_time \div 2>>,
                               <<>>, [file_path |-> new_files[i]])],
                <<>>, str(current_time))
       ELSE Skip(<<"No new files found">>)

----------------------------------------------------------------------------
(* asset_decorators.py: schema_validated_asset, and the custom hooks of    *)
(* execution_hooks.py and notification_hooks.py.  A call ends as           *)
(* [returned, raised, log].                                                *)

NoValue == [none |-> TRUE]

Ended(returned, exception, log) ==
    [returned |-> returned, raised |-> exception, log |-> log]

\* schema_validated_asset returning what the function produced whatever
\* validate_schema says.
schema_validated_asset_unchecked(produced, schema) ==
    Ended(produced, "", <<>>)

\* wrapper(context): validate_schema is called when the result has
\* 'columns'; what it raises leaves the wrapper too.
schema_validated_asset(produced, schema) ==
    IF "cols" \notin DOMAIN produced THEN Ended(produced, "", <<>>)
    ELSE
    LET schema_check == validate_schema(produced, schema)
    IN IF schema_check.raised # ""
       THEN Ended(NoValue, schema_check.raised, <<>>)
       ELSE IF ~schema_check.result.passed
       THEN Ended(NoValue, "ValueError",
                  <<<<"error", "Schema validation failed",
                      schema_check.result.description>>>>)
       ELSE Ended(schema_check.df, "",
                  <<<<"info", "Schema validation passed">>>>)

\* IsException taking in every exception.
IsException_any(e) == TRUE

\* issubclass(type(e), Exception): KeyboardInterrupt, SystemExit and
\* GeneratorExit derive from BaseException alone.
IsException(e) == e \notin {"KeyboardInterrupt", "SystemExit", "GeneratorExit"}

\* try: custom_logic(context) / except Exception as e: context.log.error(...)
\* with exception what the user's function raised ("" when it returned).
custom_hook(hook_name, exception) ==
    IF exception = "" THEN Ended(NoValue, "", <<>>)
    ELSE IF IsException(exception)
    THEN Ended(NoValue, "", <<<<"error", hook_name, exception>>>>)
    ELSE Ended(NoValue, exception, <<>>)

----------------------------------------------------------------------------
(* What the sensors, the wrapper and the hooks are built with and run on.  *)

\* The longest history a run is started by hand into (the retries and the
\* triggered runs the daemon launches are not held back).
MaxRuns == 2

\* The sensors: two jobs, retries with and without a delay.
Sensors ==
    {[name |-> "failure_recovery_sensor", job_name |-> "etl",
      max_retries |-> m, retry_delay_minutes |-> d] :
        m \in {1, 2}, d \in {0, ClockStep}}
    \cup {[name |-> "dependency_sensor", job_name |-> "etl",
           upstream_job_name |-> "upstream"]}
    \cup {[name |-> n, job_name |-> "etl", file_extensions |-> x] :
             n \in {"s3_file_sensor", "local_file_sensor"},
             x \in {<<>>, <<".csv">>}}

\* Two files of one name, one of them in a sub-directory, and a third.
FilePaths ==
    {Path(<<>>, "a", ".csv"), Path(<<"sub">>, "a", ".csv"),
     Path(<<>>, "b", ".json")}

\* What an asset function may produce: a frame, a value without columns.
Produced == SchemaData \cup {NoValue, [value |-> 1]}

Wrappers ==
    {[name |-> "schema_validated_asset", schema |-> schema] :
        schema \in SchemaArguments}
    \cup {[name |-> "custom_hooks", on_success |-> s, on_failure |-> f] :
             <<s, f>> \in (BOOLEAN \X BOOLEAN) \ {<<FALSE, FALSE>>}}

\* What the user's function raises: nothing, or an exception by its class.
UserOutcomes == {"", "ValueError", "KeyboardInterrupt", "SystemExit"}

----------------------------------------------------------------------------
(* The state machine: the caller calls one check after another on its frame. *)

NoCall(d) == [op |-> "none", args |-> <<>>, df |-> d]

\* No sensor evaluated and no wrapper called.
NoTick ==
    [sensor |-> "none", run_requests |-> <<>>, skip_reason |-> <<>>,
     cursor |-> None, timestamp |-> None]

InitWith(data) ==
    /\ df \in data
    /\ clock = Clock0
    /\ call = NoCall(df)
    /\ result = NoResult
    /\ raised = ""
    /\ part = [name |-> "asset_checks"]
    /\ runs = <<>>
    /\ files = {}
    /\ cursor = None
    /\ tick = NoTick
    /\ issued = [once |-> {}, again |-> {}]
    /\ ended = [op |-> "none", args |-> <<>>, returned |-> NoValue,
                raised |-> "", log |-> <<>>]

\* A sensor, a wrapper or a hook at work: no check is called.
InitPart(parts) ==
    /\ df = Frame(<<>>, <<>>)
    /\ clock = Clock0
    /\ call = NoCall(df)
    /\ result = NoResult
    /\ raised = ""
    /\ part \in parts
    /\ runs = <<>>
    /\ files = {}
    /\ cursor = None
    /\ tick = NoTick
    /\ issued = [once |-> {}, again |-> {}]
    /\ ended = [op |-> "none", args |-> <<>>, returned |-> NoValue,
                raised |-> "", log |-> <<>>]

\* The caller has read the last result and let go of it.
ReadResult ==
    /\ call.op # "none"
    /\ call' = NoCall(df)
    /\ result' = NoResult
    /\ raised' = ""
    /\ UNCHANGED <<df, clock, part, runs, files, cursor, tick, issued, ended>>

\* The call op(df, args) ended as out.  The caller makes it when it holds no
\* result, or to repeat the call it has just made.
Apply(op, args, out) ==
    /\ part.name = "asset_checks"
    /\ call.op = "none" \/ (call.op = op /\ call.args = args)
    /\ call' = [op |-> op, args |-> args, df |-> df]
    /\ df' = out.df
    /\ result' = out.result
    /\ raised' = out.raised
    /\ UNCHANGED <<part, runs, files, cursor, tick, issued, ended>>

CheckNoNulls ==
    \E columns \in ColumnLists :
        /\ Apply("check_no_nulls", [columns |-> columns],
                 check_no_nulls(df, columns))
        /\ UNCHANGED clock

CheckUniqueValues ==
    \E columns \in ColumnLists :
        /\ Apply("check_unique_values", [columns |-> columns],
                 check_unique_values(df, columns))
        /\ UNCHANGED clock

CheckRowCount ==
    \E min_rows \in RowBounds, max_rows \in OptionalRowBounds :
        /\ Apply("check_row_count",
                 [min_rows |-> min_rows, max_rows |-> max_rows],
                 check_row_count(df, min_rows, max_rows))
        /\ UNCHANGED clock

\* A NaN among allowed_values is tried against a float column, whose nulls
\* are NaN as well.
CheckColumnValues ==
    \E column \in Names, allowed_values \in AllowedValueLists :
        /\ NULL \in Range(allowed_values)
              => (Has(df, column) /\ df.data[column].dtype = "float64")
        /\ Apply("check_column_values",
                 [column |-> column, allowed_values |-> allowed_values],
                 check_column_values(df, column, allowed_values))
        /\ UNCHANGED clock

CheckNumericRange ==
    \E column \in Names, min_value \in OptionalNumbers,
       max_value \in OptionalNumbers :
        /\ Apply("check_numeric_range",
                 [column |-> column, min_value |-> min_value,
                  max_value |-> max_value],
                 check_numeric_range(df, column, min_value, max_value))
        /\ UNCHANGED clock

CheckDateRange ==
    \E column \in Names, min_date \in OptionalDates,
       max_date \in OptionalDates :
        /\ Apply("check_date_range",
                 [column |-> column, min_date |-> min_date,
                  max_date |-> max_date],
                 check_date_range(df, column, min_date, max_date))
        /\ UNCHANGED clock

CheckRequiredColumns ==
    \E required_columns \in ColumnLists :
        /\ Apply("check_required_columns",
                 [required_columns |-> required_columns],
                 check_required_columns(df, required_columns))
        /\ UNCHANGED clock

CheckColumnTypes ==
    \E expected_types \in ExpectedTypes :
        /\ Apply("check_column_types", [expected_types |-> expected_types],
                 check_column_types(df, expected_types))
        /\ UNCHANGED clock

CheckNoExtraColumns ==
    \E allowed_columns \in ColumnLists :
        /\ Apply("check_no_extra_columns",
                 [allowed_columns |-> allowed_columns],
                 check_no_extra_columns(df, allowed_columns))
        /\ UNCHANGED clock

CheckColumnOrder ==
    \E expected_order \in ColumnLists :
        /\ Apply("check_column_order", [expected_order |-> expected_order],
                 check_column_order(df, expected_order))
        /\ UNCHANGED clock

ValidateSchema ==
    \E schema \in SchemaArguments :
        /\ Apply("validate_schema", [schema |-> schema],
                 validate_schema(df, schema))
        /\ UNCHANGED clock

\* datetime.now() is read when the column is there; it never runs backwards.
CheckDataFreshness ==
    \E timestamp_column \in TimestampColumns, max_age_hours \in MaxAgeHours,
       now \in ClockReadings(clock) :
        /\ Apply("check_data_freshness",
                 [timestamp_column |-> timestamp_column,
                  max_age_hours |-> max_age_hours],
                 check_data_freshness(df, timestamp_column, max_age_hours, now))
        /\ clock' = IF Has(df, timestamp_column)
                       /\ to_datetime(df.data[timestamp_column]).ok
                    THEN now ELSE clock

CheckUpdateFrequency ==
    \E timestamp_column \in TimestampColumns,
       expected_frequency_hours \in FrequencyHours :
        /\ Apply("check_update_frequency",
                 [timestamp_column |-> timestamp_column,
                  expected_frequency_hours |-> expected_frequency_hours],
                 check_update_frequency(df, timestamp_column,
                                        expected_frequency_hours))
        /\ UNCHANGED clock

CheckBusinessHoursData ==
    \E timestamp_column \in TimestampColumns, hours \in BusinessHours :
        /\ Apply("check_business_hours_data",
                 [timestamp_column |-> timestamp_column,
                  business_start |-> hours[1], business_end |-> hours[2]],
                 check_business_hours_data(df, timestamp_column,
                                           hours[1], hours[2]))
        /\ UNCHANGED clock

CheckDataContinuity ==
    \E timestamp_column \in TimestampColumns,
       expected_interval_minutes \in IntervalMinutes :
        /\ Apply("check_data_continuity",
                 [timestamp_column |-> timestamp_column,
                  expected_interval_minutes |-> expected_interval_minutes],
                 check_data_continuity(df, timestamp_column,
                                       expected_interval_minutes))
        /\ UNCHANGED clock

NextQuality ==
    \/ CheckNoNulls
    \/ CheckUniqueValues
    \/ CheckRowCount
    \/ CheckColumnValues
    \/ CheckNumericRange
    \/ CheckDateRange

NextSchema ==
    \/ CheckRequiredColumns
    \/ CheckColumnTypes
    \/ CheckNoExtraColumns
    \/ CheckColumnOrder
    \/ ValidateSchema

NextFresh ==
    \/ CheckDataFreshness
    \/ CheckUpdateFrequency
    \/ CheckBusinessHoursData
    \/ CheckDataContinuity

----------------------------------------------------------------------------
(* The sensors: the daemon evaluates the sensor when no tick is under way, *)
(* then launches the runs requested under run keys no run has yet and      *)
(* keeps the cursor; meanwhile runs start and end and files arrive.        *)

NewRun(run_id, job_name, tags, run_config) ==
    [run_id |-> run_id, job_name |-> job_name, status |-> "STARTED",
     tags |-> tags, run_config |-> run_config,
     end_time |-> None, failed_at |-> None]

\* The runs of history with those the requests launch put in front: a
\* request whose run key a run carries already launches nothing.
RECURSIVE Launch(_, _, _)
Launch(requests, history, job_name) ==
    IF requests = <<>> THEN history
    ELSE LET request == Head(requests)
             tags == [k \in DOMAIN request.tags \cup {"run_key"} |->
                        IF k = "run_key" THEN request.run_key
                        ELSE request.tags[k]]
         IN IF \E i \in DOMAIN history :
                   /\ "run_key" \in DOMAIN history[i].tags
                   /\ history[i].tags.run_key = request.run_key
            THEN Launch(Tail(requests), history, job_name)
            ELSE Launch(Tail(requests),
                        <<NewRun(Len(history) + 1, job_name, tags,
                                 request.run_config)>> \o history,
                        job_name)

Evaluate(out, now) ==
    /\ tick = NoTick
    /\ tick' = [sensor |-> part.name, run_requests |-> out.run_requests,
                skip_reason |-> out.skip_reason, cursor |-> out.cursor,
                timestamp |-> now]
    /\ issued' =
          LET keys == {out.run_requests[i].run_key :
                          i \in DOMAIN out.run_requests}
          IN [once |-> issued.once \cup keys,
              again |-> issued.again \cup (keys \cap issued.once)]
    /\ clock' = now
    /\ UNCHANGED <<df, call, result, raised, part, runs, files, cursor, ended>>

FinishTick ==
    /\ tick # NoTick
    /\ runs' = Launch(tick.run_requests, runs, part.job_name)
    /\ cursor' = IF tick.cursor # None THEN tick.cursor ELSE cursor
    /\ tick' = NoTick
    /\ UNCHANGED <<df, call, result, raised, clock, part, files, issued, ended>>

FailureRecoverySensor ==
    /\ part.name = "failure_recovery_sensor"
    /\ \E now \in ClockReadings(clock) :
          Evaluate(failure_recovery_sensor(runs, part.job_name,
                       part.max_retries, part.retry_delay_minutes, now), now)

DependencySensor ==
    /\ part.name = "dependency_sensor"
    /\ Evaluate(dependency_sensor(runs, cursor, part.upstream_job_name), clock)

StartRun ==
    /\ part.name \in {"failure_recovery_sensor", "dependency_sensor"}
    /\ Len(runs) < MaxRuns
    /\ \E job_name \in {"etl", "upstream"} :
          runs' = <<NewRun(Len(runs) + 1, job_name, <<>>, <<>>)>>
                      \o runs
    /\ UNCHANGED <<df, call, result, raised, clock, part, files, cursor, tick, issued, ended>>

\* A run of the job the sensor reads fails, at the last clock reading:
\* its record may be left without an end time.  (How the runs of other
\* jobs end, the sensor never reads.)
RunFails ==
    /\ part.name \in {"failure_recovery_sensor", "dependency_sensor"}
    /\ \E i \in DOMAIN runs, recorded \in BOOLEAN :
          /\ runs[i].status = "STARTED"
          /\ runs[i].job_name =
                IF part.name = "dependency_sensor"
                THEN part.upstream_job_name ELSE part.job_name
          /\ runs' = [runs EXCEPT ![i].status = "FAILURE",
                                  ![i].end_time = IF recorded THEN clock ELSE None,
                                  ![i].failed_at = clock]
    /\ UNCHANGED <<df, call, result, raised, clock, part, files, cursor, tick, issued, ended>>

RunSucceeds ==
    /\ part.name \in {"failure_recovery_sensor", "dependency_sensor"}
    /\ \E i \in DOMAIN runs :
          /\ runs[i].status = "STARTED"
          /\ runs[i].job_name =
                IF part.name = "dependency_sensor"
                THEN part.upstream_job_name ELSE part.job_name
          /\ runs' = [runs EXCEPT ![i].status = "SUCCESS",
                                  ![i].end_time = clock]
    /\ UNCHANGED <<df, call, result, raised, clock, part, files, cursor, tick, issued, ended>>

S3FileSensor ==
    /\ part.name = "s3_file_sensor"
    /\ \E fails \in BOOLEAN :
          Evaluate(s3_file_sensor(files, cursor, part.file_extensions, fails),
                   clock)

\* list_objects returns keys alone: an object's time is left at 0.
PutObject ==
    /\ part.name = "s3_file_sensor"
    /\ \E path \in FilePaths :
          /\ \A e \in files : e.path # path
          /\ files' = files \cup {[path |-> path, is_file |-> TRUE, mtime |-> 0]}
    /\ UNCHANGED <<df, call, result, raised, clock, part, runs, cursor, tick, issued, ended>>

LocalFileSensor ==
    /\ part.name = "local_file_sensor"
    /\ Evaluate(local_file_sensor(files, cursor, part.file_extensions), clock)

MakeDirectory ==
    /\ part.name = "local_file_sensor"
    /\ \A e \in files : e.path # Root
    /\ files' = files \cup {[path |-> Root, is_file |-> FALSE, mtime |-> 0]}
    /\ UNCHANGED <<df, call, result, raised, clock, part, runs, cursor, tick, issued, ended>>

\* A file is created, or written again at a later time (1.0 s and 1.5 s);
\* its sub-directory is made with it.
WriteFile ==
    /\ part.name = "local_file_sensor"
    /\ \E e \in files : e.path = Root
    /\ \E path \in FilePaths, mtime \in {2, 3} :
          /\ \A e \in files : e.path = path => e.mtime < mtime
          /\ files' =
                {e \in files : e.path # path}
                \cup {[path |-> path, is_file |-> TRUE, mtime |-> mtime]}
                \cup {[path |-> Path(<<>>, path.dir[i], ""), is_file |-> FALSE, mtime |-> mtime] :
                         i \in {j \in DOMAIN path.dir :
                                   \A e \in files :
                                      e.path # Path(<<>>, path.dir[j], "")}}
    /\ UNCHANGED <<df, call, result, raised, clock, part, runs, cursor, tick, issued, ended>>

DeleteFile ==
    /\ part.name = "local_file_sensor"
    /\ \E e \in files :
          /\ e.is_file
          /\ files' = files \ {e}
    /\ UNCHANGED <<df, call, result, raised, clock, part, runs, cursor, tick, issued, ended>>

(* The wrapper and the hooks: each call ends before the next begins. *)

End(op, args, out) ==
    /\ ended' = [op |-> op, args |-> args, returned |-> out.returned,
                 raised |-> out.raised, log |-> out.log]
    /\ UNCHANGED <<df, call, result, raised, clock, part, runs, files, cursor, tick, issued>>

SchemaValidatedAsset ==
    /\ part.name = "schema_validated_asset"
    /\ \E produced \in Produced :
          End("schema_validated_asset", [result |-> produced],
              schema_validated_asset(produced, part.schema))

CustomSuccessHook ==
    /\ part.name = "custom_hooks"
    /\ \E exception \in UserOutcomes :
          End("custom_success_hook", [raises |-> exception],
              custom_hook("custom_success_hook", exception))

CustomFailureHook ==
    /\ part.name = "custom_hooks"
    /\ \E exception \in UserOutcomes :
          End("custom_failure_hook", [raises |-> exception],
              custom_hook("custom_failure_hook", exception))

CustomNotificationHook ==
    /\ part.name = "custom_hooks"
    /\ \E event_type \in {"success", "failure"}, exception \in UserOutcomes :
          /\ event_type = "success" => part.on_success
          /\ event_type = "failure" => part.on_failure
          /\ End("custom_notification_hook",
                 [event_type |-> event_type, raises |-> exception],
                 custom_hook("custom_notification_hook", exception))

NextSensors ==
    \/ FailureRecoverySensor
    \/ DependencySensor
    \/ S3FileSensor
    \/ LocalFileSensor
    \/ FinishTick
    \/ StartRun
    \/ RunFails
    \/ RunSucceeds
    \/ PutObject
    \/ MakeDirectory
    \/ WriteFile
    \/ DeleteFile

NextWrappers ==
    \/ SchemaValidatedAsset
    \/ CustomSuccessHook
    \/ CustomFailureHook
    \/ CustomNotificationHook

Next ==
    \/ NextQuality \/ NextSchema \/ NextFresh \/ ReadResult
    \/ NextSensors \/ NextWrappers

InitQuality == InitWith(QualityData)

InitSchema == InitWith(SchemaData)

InitFresh == InitWith(FreshData)

Init ==
    \/ InitWith(QualityData \cup SchemaData \cup FreshData)
    \/ InitPart(Sensors \cup Wrappers)

SpecQuality == InitQuality /\ [][NextQuality \/ ReadResult]_vars

SpecSchema == InitSchema /\ [][NextSchema \/ ReadResult]_vars

SpecFresh == InitFresh /\ [][NextFresh \/ ReadResult]_vars

SpecSensors == InitPart(Sensors) /\ [][NextSensors]_vars

SpecWrappers == InitPart(Wrappers) /\ [][NextWrappers]_vars

Spec == Init /\ [][Next]_vars

----------------------------------------------------------------------------
(* What the claims read: the frame as it was passed, and sums and          *)
(* permutations over it.                                                   *)

Was(op) == call.op = op /\ raised = ""

RECURSIVE SetSum(_, _)
SetSum(f, S) ==
    IF S = {} THEN 0
    ELSE LET x == CHOOSE y \in S : TRUE IN f[x] + SetSum(f, S \ {x})

NullCells(d, C) ==
    {<<c, i>> \in (Range(C) \cap Range(d.cols)) \X (1..NRows(d)) :
        IsNull(d.data[c].vals[i])}

RowOrders(n) ==
    {p \in [1..n -> 1..n] : \A i, j \in 1..n : p[i] = p[j] => i = j}

\* The frame with its rows in the order p.
Permuted(d, p) ==
    [d EXCEPT !.data = [c \in DOMAIN d.data |->
        [d.data[c] EXCEPT !.vals = [i \in DOMAIN d.data[c].vals |->
                                       d.data[c].vals[p[i]]]]]]

----------------------------------------------------------------------------
(* C1: check_row_count passes iff min_rows <= len(D) and max_rows is absent *)
(* or len(D) <= max_rows, max_rows = 0 included (then only an empty frame  *)
(* may pass).                                                              *)
C1_RowCountWithinBounds ==
    Was("check_row_count") =>
        (result.passed <=>
            /\ call.args.min_rows <= NRows(call.df)
            /\ (call.args.max_rows = None
                \/ NRows(call.df) <= call.args.max_rows))

(* C2: no check changes the frame it is given: after check_date_range,     *)
(* check_data_freshness, check_update_frequency, check_data_continuity or  *)
(* check_business_hours_data the caller's frame has the columns and the    *)
(* cells (the timestamp column's representation included) it had before.   *)
C2_ChecksLeaveFrameAlone ==
    call.op \in {"check_date_range", "check_data_freshness",
                 "check_update_frequency", "check_data_continuity",
                 "check_business_hours_data"}
        => df = call.df

(* C3: check_no_nulls(D, C) passes iff every cell of every column of C is  *)
(* non-null; when it fails, failed_columns is the columns of C holding a   *)
(* null and the reported null counts add up to the null cells in C.  (The  *)
(* call returns exactly when every name in C is a column of D.)            *)
C3_NoNullsExact ==
    call.op = "check_no_nulls" =>
        LET D == call.df
            C == call.args.columns
        IN /\ raised = "" <=> Range(C) \subseteq Range(D.cols)
           /\ raised = "" =>
                /\ result.passed <=> NullCells(D, C) = {}
                /\ ~result.passed =>
                    /\ Range(result.metadata.failed_columns) =
                           {c \in Range(C) : \E i \in 1..NRows(D) :
                                                <<c, i>> \in NullCells(D, C)}
                    /\ SetSum(result.metadata.null_counts,
                              DOMAIN result.metadata.null_counts)
                           = Cardinality(NullCells(D, C))

C3_Witness ==
    /\ Was("check_no_nulls")
    /\ ~result.passed
    /\ Len(call.args.columns) = 2
    /\ Len(result.metadata.failed_columns) = 1
    /\ Cardinality(NullCells(call.df, call.args.columns)) = 2

(* C4: validate_schema(D, S) passes iff each of check_required_columns,    *)
(* check_column_types, check_no_extra_columns and check_column_order whose *)
(* key S holds passes when called alone on D with S's value; and           *)
(* schema_issues is as long as the number of those sub-checks that fail.   *)
SubCheck(D, key, value) ==
    CASE key = "required_columns" -> check_required_columns(D, value).result
      [] key = "column_types" -> check_column_types(D, value).result
      [] key = "allowed_columns" -> check_no_extra_columns(D, value).result
      [] key = "column_order" -> check_column_order(D, value).result

FailingSubChecks(D, S) ==
    {i \in DOMAIN S : ~SubCheck(D, S[i][1], S[i][2]).passed}

C4_SchemaComposition ==
    Was("validate_schema") =>
        LET failing == FailingSubChecks(call.df, call.args.schema)
        IN /\ result.passed <=> failing = {}
           /\ ~result.passed =>
                Len(result.metadata.schema_issues) = Cardinality(failing)

C4_Witness ==
    /\ Was("validate_schema")
    /\ Len(call.args.schema) = 4
    /\ ~result.passed
    /\ Len(result.metadata.schema_issues) = 2
    /\ \E i \in DOMAIN call.args.schema :
          /\ i \in FailingSubChecks(call.df, call.args.schema)
          /\ SubCheck(call.df, call.args.schema[i][1],
                      call.args.schema[i][2]).severity = "WARN"

(* C5 as claimed: check_business_hours_data always passes, for every frame *)
(* and every timestamp_column, business_start and business_end.            *)
C5_BusinessHoursAlwaysPasses ==
    Was("check_business_hours_data") => result.passed

(* C5 as amended: a result of check_business_hours_data has passed = true  *)
(* exactly when timestamp_column is a column of the frame, whatever        *)
(* business_start and business_end are; when the column is missing the     *)
(* result fails with severity ERROR.                                       *)
C5_BusinessHoursPassesOnItsColumn ==
    Was("check_business_hours_data") =>
        /\ result.passed <=> Has(call.df, call.args.timestamp_column)
        /\ ~result.passed => result.severity = "ERROR"

C5_Witness ==
    /\ Was("check_business_hours_data")
    /\ result.passed
    /\ result.metadata.total_count = 2
    /\ result.metadata.business_hours_count = 0
    /\ result.metadata.weekend_count = 2

(* C6: a result any check returns with passed = false has severity WARN or *)
(* ERROR, never INFO.                                                      *)
C6_FailureIsWarnOrError ==
    (call.op # "none" /\ raised = "" /\ ~result.passed)
        => result.severity \in {"WARN", "ERROR"}

C6_Witness ==
    /\ Was("check_no_extra_columns")
    /\ ~result.passed
    /\ result.severity = "WARN"

(* C7: calling a check twice in a row with the same arguments, the caller  *)
(* not touching the frame in between, returns the same result twice.       *)
C7_SecondCallSameResult ==
    [][(call.op # "none" /\ call'.op = call.op /\ call'.args = call.args)
          => (result' = result /\ raised' = raised)]_vars

(* C8: check_no_nulls, check_unique_values and check_column_values return  *)
(* the same result (verdict and metadata, the list of invalid values       *)
(* included) on a frame and on every permutation of its rows.              *)
OnFrame(op, D, args) ==
    CASE op = "check_no_nulls" -> check_no_nulls(D, args.columns)
      [] op = "check_unique_values" -> check_unique_values(D, args.columns)
      [] op = "check_column_values" ->
            check_column_values(D, args.column, args.allowed_values)

C8_RowOrderIrrelevant ==
    (call.op \in {"check_no_nulls", "check_unique_values",
                  "check_column_values"} /\ raised = "")
        => \A p \in RowOrders(NRows(call.df)) :
              OnFrame(call.op, Permuted(call.df, p), call.args).result = result

(* C9: when expected_order is a permutation of the frame's column names,   *)
(* check_column_order passes iff the columns are in exactly that order,    *)
(* and otherwise fails with severity WARN.                                 *)
IsPermutationOf(xs, ys) ==
    /\ Len(xs) = Len(ys)
    /\ Range(xs) = Range(ys)
    /\ Cardinality(Range(xs)) = Len(xs)

C9_OrderOfPermutation ==
    (Was("check_column_order")
        /\ IsPermutationOf(call.args.expected_order, call.df.cols))
        => /\ result.passed <=> call.df.cols = call.args.expected_order
           /\ ~result.passed => result.severity = "WARN"

C9_Witness ==
    /\ Was("check_column_order")
    /\ IsPermutationOf(call.args.expected_order, call.df.cols)
    /\ Len(call.df.cols) = 2
    /\ ~result.passed

(* C10: with timestamp_column present, check_data_freshness fails, with    *)
(* severity ERROR, iff the current time minus the column's greatest        *)
(* timestamp is strictly more than max_age_hours; an age of exactly        *)
(* max_age_hours passes; age_hours is that age.  (A column with no         *)
(* timestamp in it has no age, and passes.)                                *)
MostRecent(D, column) == SeriesMax(to_datetime(D.data[column]).col.vals)

C10_FreshnessThreshold ==
    (Was("check_data_freshness") /\ Has(call.df, call.args.timestamp_column))
        => LET most_recent == MostRecent(call.df, call.args.timestamp_column)
               age_minutes == clock - most_recent
           IN IF IsNull(most_recent) THEN result.passed
              ELSE /\ ~result.passed <=>
                        age_minutes > call.args.max_age_hours * MinutesPerHour
                   /\ ~result.passed => result.severity = "ERROR"
                   /\ result.metadata.age_hours = <<age_minutes, MinutesPerHour>>

C10_Witness ==
    /\ Was("check_data_freshness")
    /\ Has(call.df, call.args.timestamp_column)
    /\ result.passed
    /\ call.args.max_age_hours = 24
    /\ clock - MostRecent(call.df, call.args.timestamp_column)
           = 24 * MinutesPerHour

(* C11: when timestamp_column is not a column of the frame,                *)
(* check_data_freshness, check_update_frequency and check_data_continuity  *)
(* return (they do not raise) a failing result of severity ERROR that      *)
(* carries nothing computed from the data, and the frame is as it was.     *)
C11_MissingColumnIsError ==
    (call.op \in {"check_data_freshness", "check_update_frequency",
                  "check_data_continuity"}
        /\ ~Has(call.df, call.args.timestamp_column))
        => /\ raised = ""
           /\ ~result.passed
           /\ result.severity = "ERROR"
           /\ DOMAIN result.metadata = {"timestamp_column", "available_columns"}
           /\ result.metadata.available_columns = call.df.cols
           /\ df = call.df

C11_Witness ==
    /\ Was("check_data_continuity")
    /\ ~Has(call.df, call.args.timestamp_column)
    /\ NRows(call.df) = 2
    /\ ~result.passed

(* C12: check_numeric_range passes iff no value of the column is strictly  *)
(* below min_value (when min_value is given, 0 included) and none is       *)
(* strictly above max_value (when max_value is given, 0 included); a value *)
(* equal to a bound never fails.                                           *)
C12_ClosedOptionalBounds ==
    Was("check_numeric_range") =>
        LET vals == Range(NonNull(call.df.data[call.args.column].vals))
            lo == call.args.min_value
            hi == call.args.max_value
        IN result.passed <=>
              /\ lo # None => \A v \in vals : ~(v < lo)
              /\ hi # None => \A v \in vals : ~(v > hi)

C12_Witness ==
    /\ Was("check_numeric_range")
    /\ call.args.min_value = 1
    /\ call.args.max_value = 1
    /\ call.df.data[call.args.column].vals = <<1, 1>>
    /\ result.passed

(* The timestamps of a column after conversion, nulls dropped, and the     *)
(* pairs of them that are neighbours once sorted.                          *)
Instants(D, column) == NonNull(to_datetime(D.data[column]).col.vals)

Adjacent(S) ==
    {pair \in S \X S :
        /\ pair[1] < pair[2]
        /\ ~\E c \in S : pair[1] < c /\ c < pair[2]}

(* C13: check_update_frequency with timestamp_column present: when fewer   *)
(* than two timestamps are left (no delta) the result does not pass, with  *)
(* severity WARN and the description of insufficient data; otherwise it    *)
(* fails, with WARN, iff the largest delta between neighbouring sorted     *)
(* timestamps is strictly more than 2 x expected_frequency_hours; and the  *)
(* verdict is the same for every order of the rows.                        *)
C13_UpdateFrequencyVerdict ==
    (Was("check_update_frequency") /\ Has(call.df, call.args.timestamp_column))
        => LET column == call.args.timestamp_column
               hours == call.args.expected_frequency_hours
               instants == Instants(call.df, column)
           IN /\ IF Len(instants) < 2
                 THEN /\ ~result.passed
                      /\ result.severity = "WARN"
                      /\ result.description =
                             <<"Insufficient data to check update frequency">>
                 ELSE /\ ~result.passed <=>
                             \E pair \in Adjacent(Range(instants)) :
                                 pair[2] - pair[1] > 2 * hours * MinutesPerHour
                      /\ ~result.passed => result.severity = "WARN"
              /\ \A p \in RowOrders(NRows(call.df)) :
                    check_update_frequency(Permuted(call.df, p), column, hours)
                        .result.passed = result.passed

C13_Witness ==
    /\ Was("check_update_frequency")
    /\ Has(call.df, call.args.timestamp_column)
    /\ NRows(call.df) = 3
    /\ call.df.data[call.args.timestamp_column].vals[1] = Sunday09
    /\ result.passed
    /\ result.metadata.max_gap_hours =
           Hours(2 * call.args.expected_frequency_hours * MinutesPerHour)

(* C14: check_data_continuity on a frame with at least two timestamps      *)
(* fails, with WARN, iff some delta between neighbouring sorted timestamps *)
(* is strictly more than 1.5 x expected_interval_minutes; on failure       *)
(* gap_count is the number of such deltas, largest_gap_minutes their       *)
(* maximum and avg_gap_minutes their mean, so that avg <= largest and both *)
(* are above the tolerance.                                                *)
C14_ContinuityGaps ==
    (Was("check_data_continuity") /\ Has(call.df, call.args.timestamp_column)
        /\ Len(Instants(call.df, call.args.timestamp_column)) >= 2)
        => LET S == Range(Instants(call.df, call.args.timestamp_column))
               interval == call.args.expected_interval_minutes
               long == {pair \in Adjacent(S) :
                           2 * (pair[2] - pair[1]) > 3 * interval}
               delta == [pair \in long |-> pair[2] - pair[1]]
               m == result.metadata
           IN /\ ~result.passed <=> long # {}
              /\ ~result.passed =>
                    /\ result.severity = "WARN"
                    /\ m.gap_count = Cardinality(long)
                    /\ \E pair \in long :
                          /\ m.largest_gap_minutes = <<delta[pair], 1>>
                          /\ \A q \in long : delta[q] <= delta[pair]
                    /\ m.avg_gap_minutes[2] > 0
                    /\ m.avg_gap_minutes[1] * Cardinality(long)
                           = SetSum(delta, long) * m.avg_gap_minutes[2]
                    /\ m.avg_gap_minutes[1] * m.largest_gap_minutes[2]
                           <= m.largest_gap_minutes[1] * m.avg_gap_minutes[2]
                    /\ 2 * m.avg_gap_minutes[1] > 3 * interval * m.avg_gap_minutes[2]

C14_Witness ==
    /\ Was("check_data_continuity")
    /\ Has(call.df, call.args.timestamp_column)
    /\ Len(Instants(call.df, call.args.timestamp_column)) = 3
    /\ ~result.passed
    /\ result.metadata.gap_count = 2
    /\ result.metadata.largest_gap_minutes # result.metadata.avg_gap_minutes

(* C15: the issue list of validate_schema follows the order in which the  *)
(* schema declares its keys: the descriptions of the failing sub-checks    *)
(* appear in the order of their keys in the schema.                        *)
C15_IssuesInDeclarationOrder ==
    (Was("validate_schema") /\ ~result.passed)
        => LET S == call.args.schema
               failing == SelectSeq(S,
                   LAMBDA item : ~SubCheck(call.df, item[1], item[2]).passed)
           IN result.metadata.schema_issues =
                 [i \in DOMAIN failing |->
                     SubCheck(call.df, failing[i][1], failing[i][2]).description]

(* C16: a fault raised by one sub-check of validate_schema is fatal for    *)
(* that sub-check only: the aggregate still returns its result, and the    *)
(* sibling sub-checks are still evaluated, their failures listed in it.    *)
C16_FaultStaysInItsCheck ==
    (call.op = "validate_schema"
        /\ Faults(call.df, call.args.schema) # <<>>)
        => LET S == call.args.schema
               failing ==
                   {SubCheckCall(call.df, S, key).result.description :
                       key \in {k \in Range(SubCheckKeys) :
                           /\ SchemaHas(S, k)
                           /\ SubCheckCall(call.df, S, k).raised = ""
                           /\ ~SubCheckCall(call.df, S, k).result.passed}}
           IN /\ raised = ""
              /\ result.passed <=> failing = {}
              /\ ~result.passed =>
                    Range(result.metadata.schema_issues) = failing

(* C17: check_column_values fails, with ERROR, iff some distinct value of  *)
(* the column is not a member of allowed_values; invalid_values then holds *)
(* exactly the distinct values of the column that are not in               *)
(* allowed_values, each once.                                              *)
C17_InvalidValuesExact ==
    Was("check_column_values") =>
        LET values == Range(call.df.data[call.args.column].vals)
            invalid == values \ Range(call.args.allowed_values)
        IN /\ ~result.passed <=> invalid # {}
           /\ ~result.passed =>
                /\ result.severity = "ERROR"
                /\ Range(result.metadata.invalid_values) = invalid
                /\ Len(result.metadata.invalid_values) = Cardinality(invalid)

(* C18 as claimed: check_unique_values fails, with ERROR, iff some column  *)
(* of C holds a value in more than one row; failed_columns is those        *)
(* columns; and the duplicate count reported for a column is the number of *)
(* values occurring more than once in it.                                  *)
Occurrences(vals, v) == Cardinality({i \in DOMAIN vals : vals[i] = v})

Repeated(vals) == {v \in Range(vals) : Occurrences(vals, v) > 1}

C18_CountsRepeatedValues ==
    Was("check_unique_values") =>
        LET D == call.df
            C == call.args.columns
        IN /\ ~result.passed <=>
                 \E c \in Range(C) : Repeated(D.data[c].vals) # {}
           /\ ~result.passed =>
                /\ result.severity = "ERROR"
                /\ Range(result.metadata.failed_columns) =
                       {c \in Range(C) : Repeated(D.data[c].vals) # {}}
                /\ \A c \in Range(C) :
                       result.metadata.duplicate_counts[c] =
                           Cardinality(Repeated(D.data[c].vals))

(* C18 as amended: the verdict and failed_columns as claimed (a null       *)
(* counts as a value); the duplicate count reported for a column is the    *)
(* number of rows whose value occurred in an earlier row, that is the rows *)
(* less the distinct values.                                               *)
C18_CountsDuplicateRows ==
    Was("check_unique_values") =>
        LET D == call.df
            C == call.args.columns
        IN /\ ~result.passed <=>
                 \E c \in Range(C) : Repeated(D.data[c].vals) # {}
           /\ ~result.passed =>
                /\ result.severity = "ERROR"
                /\ Range(result.metadata.failed_columns) =
                       {c \in Range(C) : Repeated(D.data[c].vals) # {}}
                /\ \A c \in Range(C) :
                       result.metadata.duplicate_counts[c] =
                           Len(D.data[c].vals)
                               - Cardinality(Range(D.data[c].vals))

C18_Witness ==
    /\ Was("check_unique_values")
    /\ call.args.columns = <<"id", "name">>
    /\ call.df.data["id"].vals = <<1, -2, 1>>
    /\ ~result.passed
    /\ result.metadata.duplicate_counts["id"] = 1
    /\ result.metadata.duplicate_counts["name"] = 2

(* C19: when a sub-check of validate_schema fails the aggregate has        *)
(* passed = false and severity ERROR, also when only WARN-level sub-checks *)
(* fail; passing or failing, it embeds the snapshot of the frame: column   *)
(* names, per-column type, shape.                                          *)
C19_AggregateIsError ==
    Was("validate_schema") =>
        /\ FailingSubChecks(call.df, call.args.schema) # {}
              => (~result.passed /\ result.severity = "ERROR")
        /\ result.metadata.actual_schema =
              [columns |-> call.df.cols,
               types |-> [c \in Range(call.df.cols) |-> call.df.data[c].dtype],
               shape |-> <<NRows(call.df), Len(call.df.cols)>>]

C19_Witness ==
    /\ Was("validate_schema")
    /\ Len(call.df.cols) = 2
    /\ FailingSubChecks(call.df, call.args.schema) # {}
    /\ \A i \in FailingSubChecks(call.df, call.args.schema) :
          SubCheck(call.df, call.args.schema[i][1],
                   call.args.schema[i][2]).severity = "WARN"
    /\ result.severity = "ERROR"

(* C20: check_column_order ignores names absent from either side: a column *)
(* added to the frame that expected_order does not name, or a name added   *)
(* to expected_order that is no column of the frame, leaves the verdict as *)
(* it was; and the check fails, with WARN, exactly when expected_order and *)
(* the frame's columns, each restricted to the names they share, differ.   *)
InsertAt(s, k, x) == SubSeq(s, 1, k - 1) \o <<x>> \o SubSeq(s, k, Len(s))

WithColumn(d, k, name) ==
    [cols |-> InsertAt(d.cols, k, name),
     data |-> [c \in Range(d.cols) \cup {name} |->
                  IF c = name THEN TextColumn([i \in 1..NRows(d) |-> 1])
                  ELSE d.data[c]]]

C20_AbsentNamesIgnored ==
    Was("check_column_order") =>
        LET D == call.df
            expected == call.args.expected_order
            shared == Range(D.cols) \cap Range(expected)
        IN /\ ~result.passed <=>
                 SelectSeq(expected, LAMBDA c : c \in shared)
                     # SelectSeq(D.cols, LAMBDA c : c \in shared)
           /\ ~result.passed => result.severity = "WARN"
           /\ \A name \in Names \ (Range(D.cols) \cup Range(expected)) :
                 \A k \in 1..(Len(D.cols) + 1) :
                    check_column_order(WithColumn(D, k, name), expected)
                        .result.passed = result.passed
           /\ \A name \in Names \ Range(D.cols) :
                 \A k \in 1..(Len(expected) + 1) :
                    check_column_order(D, InsertAt(expected, k, name))
                        .result.passed = result.passed

C20_Witness ==
    /\ Was("check_column_order")
    /\ call.df.cols = <<"ts", "id">>
    /\ call.args.expected_order = <<"id", "ts">>
    /\ ~result.passed

(* C26: when a column holds values strictly below min_value and values     *)
(* strictly above max_value, check_numeric_range fails with ERROR and its  *)
(* result is about the minimum alone: the count of values strictly below   *)
(* the minimum and the least value of the column, and no key of the        *)
(* maximum-bound report; check_date_range does the same with min_date and  *)
(* max_date.                                                               *)
C26_FirstBoundOnly ==
    /\ (Was("check_numeric_range") /\ call.args.min_value # None
            /\ call.args.max_value # None) =>
          LET vals == Range(NonNull(call.df.data[call.args.column].vals))
              low == {i \in 1..NRows(call.df) :
                         LET v == call.df.data[call.args.column].vals[i]
                         IN ~IsNull(v) /\ v < call.args.min_value}
          IN (low # {} /\ \E v \in vals : v > call.args.max_value) =>
                /\ ~result.passed
                /\ result.severity = "ERROR"
                /\ DOMAIN result.metadata =
                       {"column", "below_min_count", "min_value", "actual_min"}
                /\ result.metadata.below_min_count = Cardinality(low)
                /\ result.metadata.actual_min \in vals
                /\ \A v \in vals : result.metadata.actual_min <= v
                /\ result.description[1] = "values in column below minimum"
    /\ (Was("check_date_range") /\ call.args.min_date # None
            /\ call.args.max_date # None) =>
          LET dates == Instants(call.df, call.args.column)
              early == {i \in DOMAIN dates :
                           dates[i] < call.args.min_date - TextBase}
          IN (early # {} /\ \E i \in DOMAIN dates :
                                dates[i] > call.args.max_date - TextBase) =>
                /\ ~result.passed
                /\ result.severity = "ERROR"
                /\ DOMAIN result.metadata =
                       {"column", "before_min_count", "min_date", "actual_min"}
                /\ result.metadata.before_min_count = Cardinality(early)
                /\ result.metadata.actual_min \in Range(dates)
                /\ \A i \in DOMAIN dates : result.metadata.actual_min <= dates[i]
                /\ result.description[1] = "dates in column before minimum"

C26_Witness ==
    /\ Was("check_date_range")
    /\ call.args.column = "ts"
    /\ call.args.min_date = DateText(Saturday20)
    /\ call.args.max_date = DateText(Saturday20)
    /\ Range(Instants(call.df, "ts")) = {Thursday10, Sunday09}
    /\ ~result.passed
    /\ result.metadata.before_min_count = 1

(* C30: check_column_types reports a mismatch only for a column the        *)
(* dataset has and only for one of the kinds string, integer, float,       *)
(* datetime, boolean: a pair naming an absent column or another kind adds  *)
(* nothing, so the check passes when every pair is of that sort, and       *)
(* validate_schema with column_types as its only key passes on a dataset   *)
(* that has none of the named columns.                                     *)
C30_OnlyExistingColumnsMismatch ==
    /\ Was("check_column_types") =>
          LET D == call.df
              items == call.args.expected_types
              known == {"string", "integer", "float", "datetime", "boolean"}
              reported == IF result.passed THEN <<>>
                          ELSE result.metadata.type_mismatches
          IN /\ \A i \in DOMAIN reported :
                    /\ reported[i][1] \in Range(D.cols)
                    /\ reported[i][2] \in known
                    /\ reported[i][3] = D.data[reported[i][1]].dtype
             /\ (\A i \in DOMAIN items :
                    items[i][1] \notin Range(D.cols) \/ items[i][2] \notin known)
                   => result.passed
             /\ result.passed =
                   check_column_types(D,
                       SelectSeq(items, LAMBDA item : item[1] \in Range(D.cols)))
                       .result.passed
    /\ (Was("validate_schema")
            /\ Len(call.args.schema) = 1
            /\ call.args.schema[1][1] = "column_types") =>
          LET items == call.args.schema[1][2]
          IN (\A i \in DOMAIN items : items[i][1] \notin Range(call.df.cols))
                => result.passed

C30_Witness ==
    /\ Was("validate_schema")
    /\ call.args.schema =
           <<<<"column_types", <<<<"id", "integer">>, <<"ts", "datetime">>>>>>>>
    /\ call.df.cols = <<"name">>
    /\ result.passed

(* A step in which the daemon evaluates the sensor, and the run a request  *)
(* names as its original.                                                  *)
Evaluates(sensor) == part.name = sensor /\ tick = NoTick /\ tick' # NoTick

RunOf(history, run_id) ==
    history[CHOOSE i \in DOMAIN history : history[i].run_id = run_id]

TaggedRetries(run) ==
    IF "retry_count" \in DOMAIN run.tags
    THEN run.tags.retry_count - TextBase ELSE 0

(* C21: in every evaluation of failure_recovery_sensor nothing is          *)
(* requested when the latest run of the job carries retry_count >=         *)
(* max_retries; a request is for that latest, failed run and carries its   *)
(* retry_count + 1; and no run launched from a request has a retry_count   *)
(* above max_retries.                                                      *)
C21_RetriesBounded ==
    [][/\ Evaluates("failure_recovery_sensor") =>
             LET job_runs == SelectSeq(runs,
                                 LAMBDA run : run.job_name = part.job_name)
             IN /\ (job_runs # <<>>
                       /\ TaggedRetries(job_runs[1]) >= part.max_retries)
                      => tick'.run_requests = <<>>
                /\ \A i \in DOMAIN tick'.run_requests :
                      LET request == tick'.run_requests[i]
                      IN /\ job_runs # <<>>
                         /\ job_runs[1].status = "FAILURE"
                         /\ request.tags.original_run_id = job_runs[1].run_id
                         /\ request.tags.retry_count - TextBase
                                = TaggedRetries(job_runs[1]) + 1
                         /\ request.tags.retry_count - TextBase
                                <= part.max_retries
       /\ part.name = "failure_recovery_sensor" =>
             \A i \in DOMAIN runs' :
                "original_run_id" \in DOMAIN runs'[i].tags
                    => TaggedRetries(runs'[i]) <= part.max_retries]_vars

C21_Witness ==
    /\ part.name = "failure_recovery_sensor"
    /\ part.max_retries = 2
    /\ Len(runs) >= 3
    /\ TaggedRetries(runs[1]) = 2
    /\ runs[1].status = "FAILURE"
    /\ tick.skip_reason = <<"Maximum retries reached", 2>>

(* C22: a retry request of failure_recovery_sensor is issued only when at  *)
(* least retry_delay_minutes have passed, at the evaluation, since the run *)
(* it retries failed.                                                      *)
C22_RetryWaitsForDelay ==
    (part.name = "failure_recovery_sensor" /\ tick # NoTick) =>
        \A i \in DOMAIN tick.run_requests :
            LET failed == RunOf(runs, tick.run_requests[i].tags.original_run_id)
            IN tick.timestamp - failed.failed_at >= part.retry_delay_minutes

(* C23: with each cursor dependency_sensor returns handed to its next      *)
(* evaluation, no upstream run has a run request issued for it by two      *)
(* evaluations.                                                            *)
C23_NoUpstreamRunRequestedTwice ==
    part.name = "dependency_sensor" => issued.again = {}

(* C24: with each cursor s3_file_sensor returns handed to its next         *)
(* evaluation, no object has a run request issued for it by two            *)
(* evaluations, and an evaluation that requests runs returns a cursor      *)
(* past the one it began with.                                             *)
C24_S3RequestsNewObjectsOnly ==
    part.name = "s3_file_sensor" =>
        /\ issued.again = {}
        /\ (tick # NoTick /\ tick.run_requests # <<>>) =>
              tick.cursor > (IF cursor # None THEN cursor ELSE DateText(0))

(* The time a cursor of the local file sensor stands for (0 with none),    *)
(* and the files the sensor's extensions let through.                      *)
CursorTime(c) == IF c = None THEN 0 ELSE c - TextBase

MatchingFiles ==
    {e \in files :
        /\ e.is_file
        /\ part.file_extensions # <<>>
              => e.path.suffix \in Range(part.file_extensions)}

(* C25: in every evaluation of the local file sensor on an existing        *)
(* directory the files requested, each once, are the matching files whose  *)
(* modification time is strictly greater than the cursor; a cursor is      *)
(* returned exactly when a run is requested and it is the greatest         *)
(* modification time of the matching files; evaluating again on the same   *)
(* files with the cursor kept requests nothing; and the cursor the         *)
(* instance keeps never decreases.                                         *)
C25_LocalRequestsNewFilesOnly ==
    [][/\ Evaluates("local_file_sensor") =>
             LET requested == {tick'.run_requests[i].run_config.file_path :
                                  i \in DOMAIN tick'.run_requests}
                 kept == IF tick'.cursor # None THEN tick'.cursor ELSE cursor
             IN /\ requested =
                      IF \E e \in files : e.path = Root
                      THEN {e.path : e \in {m \in MatchingFiles :
                                       m.mtime > CursorTime(cursor)}}
                      ELSE {}
                /\ Len(tick'.run_requests) = Cardinality(requested)
                /\ tick'.cursor # None <=> requested # {}
                /\ tick'.cursor # None =>
                      /\ \E e \in MatchingFiles : e.mtime = CursorTime(tick'.cursor)
                      /\ \A e \in MatchingFiles : e.mtime <= CursorTime(tick'.cursor)
                /\ local_file_sensor(files, kept, part.file_extensions)
                       .run_requests = <<>>
       /\ part.name = "local_file_sensor"
             => CursorTime(cursor') >= CursorTime(cursor)]_vars

C25_Witness ==
    /\ part.name = "local_file_sensor"
    /\ cursor = str(2)
    /\ Cardinality(MatchingFiles) >= 2
    /\ Len(tick.run_requests) = 1
    /\ tick.cursor = str(3)

(* C29: in one evaluation of the local file sensor the requests for two    *)
(* different files carry different run keys.                               *)
C29_DistinctFilesDistinctRunKeys ==
    (part.name = "local_file_sensor" /\ tick # NoTick) =>
        \A i, j \in DOMAIN tick.run_requests :
            tick.run_requests[i].run_config.file_path
                # tick.run_requests[j].run_config.file_path
            => tick.run_requests[i].run_key # tick.run_requests[j].run_key

(* C27: the wrapper of schema_validated_asset returns a value with columns *)
(* only when validate_schema passes on it against the declared schema, and *)
(* then returns what the function produced; when validate_schema returns a *)
(* failing result the wrapper raises ValueError; a value without columns   *)
(* is returned as produced.                                                *)
C27_NeverReturnsInvalidFrame ==
    ended.op = "schema_validated_asset" =>
        LET produced == ended.args.result
            tabular == "cols" \in DOMAIN produced
            verdict == validate_schema(produced, part.schema)
        IN /\ ~tabular => (ended.raised = "" /\ ended.returned = produced)
           /\ (tabular /\ ended.raised = "") =>
                 /\ verdict.raised = ""
                 /\ verdict.result.passed
                 /\ ended.returned = produced
           /\ (tabular /\ verdict.raised = "") =>
                 IF verdict.result.passed
                 THEN ended.raised = "" /\ ended.returned = produced
                 ELSE ended.raised = "ValueError"

C27_Witness ==
    /\ ended.op = "schema_validated_asset"
    /\ part.schema = <<<<"required_columns", <<"id", "ts">>>>>>
    /\ "cols" \in DOMAIN ended.args.result
    /\ ended.args.result.cols = <<"id">>
    /\ ended.raised = "ValueError"

CustomHooks ==
    {"custom_success_hook", "custom_failure_hook", "custom_notification_hook"}

(* C28 as stated: whatever the user's function raises, a custom hook       *)
(* returns normally, with the exception logged as an error.                *)
C28_HookNeverPropagates ==
    ended.op \in CustomHooks =>
        /\ ended.raised = ""
        /\ ended.args.raises # "" =>
              ended.log = <<<<"error", ended.op, ended.args.raises>>>>

(* C28: when the user's function raises an exception of class Exception    *)
(* (here ValueError) a custom hook logs it as an error and returns         *)
(* normally; when it returns, the hook returns with nothing logged; an     *)
(* exception outside Exception (KeyboardInterrupt, SystemExit) is not      *)
(* caught and leaves the hook.                                             *)
C28_HookCatchesExceptionOnly ==
    ended.op \in CustomHooks =>
        /\ ended.args.raises = "" => (ended.raised = "" /\ ended.log = <<>>)
        /\ ended.args.raises = "ValueError" =>
              /\ ended.raised = ""
              /\ ended.log = <<<<"error", ended.op, "ValueError">>>>
        /\ ended.args.raises \in {"KeyboardInterrupt", "SystemExit"} =>
              (ended.raised = ended.args.raises /\ ended.log = <<>>)

C28_Witness ==
    /\ ended.op = "custom_notification_hook"
    /\ ended.args.event_type = "failure"
    /\ ended.args.raises = "ValueError"
    /\ ended.raised = ""
    /\ ended.log # <<>>

====
